---- MODULE Spec2Model ----
(***************************************************************************)
(* Model of the two fixture generators                                     *)
(*   scripts/generate_balance_test_data.py   (MerkleTree, get_proof,       *)
(*                                            verify_merkle_proof)         *)
(*   scripts/generate_training_test_data.py  (to_fixed/from_fixed,         *)
(*                                            build_merkle_tree,           *)
(*                                            compute_gradient,            *)
(*                                            clip_gradient)               *)
(* Python lists are 0-indexed; the sequences below are 1-indexed, so       *)
(* Python's s[i] is written s[i + 1].                                      *)
(***************************************************************************)
EXTENDS Integers, Sequences, FiniteSets, TLC

VARIABLES pc, mt, bm, proof, vcall, codec, cg, clip

vars == <<pc, mt, bm, proof, vcall, codec, cg, clip>>

(***************************************************************************)
(* Bounds of the model.                                                    *)
(***************************************************************************)
\* raw leaf values are drawn from 0..MaxLeaf (the script commits bits 0/1)
MaxLeaf == 1
\* leaf sequences have 0..MaxLeaves entries
MaxLeaves == 4
\* The modulus used for model checking.  The script reduces modulo the
\* 254-bit BN254 scalar field prime, which TLC's machine integers cannot
\* hold; the model reduces modulo a small modulus that, like the real one,
\* is coprime to the multiplier 1234567 = 127 * 9721.
FieldSize == 13

LeafValues == 0..MaxLeaf

Indices == (0 - (MaxLeaves + 2))..(MaxLeaves + 1)

LeafSeqs == UNION {[1..k -> LeafValues] : k \in 0..MaxLeaves}

(***************************************************************************)
(* generate_balance_test_data.py : the mock hash                           *)
(***************************************************************************)
PRIME == FieldSize

RECURSIVE SumSeq(_)
SumSeq(s) == IF s = <<>> THEN 0 ELSE s[1] + SumSeq(Tail(s))

\* a hash that reads only its first input
poseidon_mock_first_only(inputs) == (inputs[1] * 1234567 + 987654321) % PRIME

poseidon_mock(inputs) == (SumSeq(inputs) * 1234567 + 987654321) % PRIME

poseidon_hash_single(value) == poseidon_mock(<<value>>)

poseidon_hash_pair(left, right) == poseidon_mock(<<left, right>>)

(***************************************************************************)
(* MerkleTree.__init__ and MerkleTree._build_tree                          *)
(***************************************************************************)
\* a depth loop that halves rounding down
RECURSIVE DepthLoopFloor(_, _)
DepthLoopFloor(temp, depth) ==
    IF temp > 1 THEN DepthLoopFloor(temp \div 2, depth + 1) ELSE depth

RECURSIVE DepthLoop(_, _)
DepthLoop(temp, depth) ==
    IF temp > 1 THEN DepthLoop((temp + 1) \div 2, depth + 1) ELSE depth

RECURSIVE Pow2(_)
Pow2(d) == IF d = 0 THEN 1 ELSE 2 * Pow2(d - 1)

RECURSIVE PadLeafHashes(_, _)
PadLeafHashes(leaf_hashes, padded_n) ==
    IF Len(leaf_hashes) < padded_n
    THEN PadLeafHashes(Append(leaf_hashes, poseidon_hash_single(0)), padded_n)
    ELSE leaf_hashes

\* the for loop of _build_tree: one parent per i in range(0, len, 2)
NextLevel(current_level) ==
    [k \in 1..((Len(current_level) + 1) \div 2) |->
        LET i == 2 * (k - 1)
            left == current_level[i + 1]
            right == IF i + 1 < Len(current_level)
                     THEN current_level[i + 2]
                     ELSE current_level[i + 1]
        IN  poseidon_hash_pair(left, right)]

RECURSIVE BuildLevels(_, _)
BuildLevels(tree, current_level) ==
    IF Len(current_level) > 1
    THEN LET next_level == NextLevel(current_level)
         IN  BuildLevels(Append(tree, next_level), next_level)
    ELSE tree

build_tree(leaves) == BuildLevels(<<leaves>>, leaves)

\* the object MerkleTree(leaves) leaves behind; no statement of __init__
\* raises, whatever the length of leaves
MerkleTree(leaves) ==
    LET n == Len(leaves)
        depth == DepthLoop(n, 0)
        padded_n == Pow2(depth)
        leaf_hashes == PadLeafHashes(
            [k \in 1..n |-> poseidon_hash_single(leaves[k])], padded_n)
        tree == build_tree(leaf_hashes)
    IN  [status |-> "ok", leaves |-> leaves, n |-> n, depth |-> depth,
         padded_n |-> padded_n, leaf_hashes |-> leaf_hashes, tree |-> tree,
         root |-> tree[Len(tree)][1]]

NoTree ==
    [status |-> "none", leaves |-> <<>>, n |-> 0, depth |-> 0, padded_n |-> 0,
     leaf_hashes |-> <<>>, tree |-> <<>>, root |-> 0]

(***************************************************************************)
(* MerkleTree.get_proof                                                    *)
(***************************************************************************)
\* Python's s[i]: a negative i counts from the end, anything outside
\* -len..len-1 raises IndexError
InRange(s, i) == i < Len(s) /\ i >= 0 - Len(s)

PyAt(s, i) == IF i >= 0 THEN s[i + 1] ELSE s[Len(s) + i + 1]

\* a sibling index that always looks to the right
SiblingIndexAlwaysRight(current_index) == current_index + 1

SiblingIndex(current_index) ==
    IF current_index % 2 # 0 THEN current_index - 1 ELSE current_index + 1

\* the body of "for level in range(self.depth)", from level on
RECURSIVE ProofLoop(_, _, _, _, _)
ProofLoop(t, level, current_index, siblings, path_indices) ==
    IF level >= t.depth
    THEN [status |-> "ok", siblings |-> siblings, path_indices |-> path_indices]
    ELSE LET is_right == current_index % 2
             sibling_index == SiblingIndex(current_index)
             lvl == t.tree[level + 1]
             pick == IF sibling_index < Len(lvl) THEN sibling_index
                                                 ELSE current_index
         IN  IF ~InRange(lvl, pick)
             THEN [status |-> "IndexError", siblings |-> <<>>,
                   path_indices |-> <<>>]
             ELSE ProofLoop(t, level + 1, current_index \div 2,
                            Append(siblings, PyAt(lvl, pick)),
                            Append(path_indices, is_right))

get_proof(t, index) ==
    IF index >= t.n
    THEN [status |-> "ValueError", siblings |-> <<>>, path_indices |-> <<>>]
    ELSE ProofLoop(t, 0, index, <<>>, <<>>)

(***************************************************************************)
(* verify_merkle_proof                                                     *)
(***************************************************************************)
Min(a, b) == IF a < b THEN a ELSE b

\* zip(siblings, path_indices) stops at the shorter of the two
RECURSIVE VerifyLoop(_, _, _, _)
VerifyLoop(current_hash, siblings, path_indices, k) ==
    IF k > Min(Len(siblings), Len(path_indices))
    THEN current_hash
    ELSE LET sibling == siblings[k]
             is_right == path_indices[k]
         IN  VerifyLoop(IF is_right # 0
                        THEN poseidon_hash_pair(sibling, current_hash)
                        ELSE poseidon_hash_pair(current_hash, sibling),
                        siblings, path_indices, k + 1)

verify_merkle_proof(leaf_value, siblings, path_indices, root) ==
    VerifyLoop(poseidon_hash_single(leaf_value), siblings, path_indices, 1) = root

(***************************************************************************)
(* generate_training_test_data.py : poseidon_hash and build_merkle_tree    *)
(***************************************************************************)
\* poseidon_hash(left, right) is SHA-256 over the decimal strings, reduced
\* mod 2^251.  The digest is idealised as a collision-free pairing of the
\* two arguments (shifted by one so that no digest equals the padding 0).
poseidon_hash(left, right) ==
    ((left + right) * (left + right + 1)) \div 2 + right + 1

RECURSIVE SizeLoop(_, _, _)
SizeLoop(size, depth, n) ==
    IF size < n THEN SizeLoop(size * 2, depth + 1, n)
                ELSE [size |-> size, depth |-> depth]

bm_NextLevel(current_level) ==
    [k \in 1..((Len(current_level) + 1) \div 2) |->
        LET i == 2 * (k - 1)
            left == current_level[i + 1]
            right == IF i + 1 < Len(current_level)
                     THEN current_level[i + 2]
                     ELSE 0
        IN  poseidon_hash(left, right)]

RECURSIVE bm_BuildLevels(_, _)
bm_BuildLevels(tree, current_level) ==
    IF Len(current_level) > 1
    THEN LET next_level == bm_NextLevel(current_level)
         IN  bm_BuildLevels(Append(tree, next_level), next_level)
    ELSE tree

\* current_idx ^ 1 for a non-negative current_idx
Xor1(current_idx) ==
    IF current_idx % 2 = 0 THEN current_idx + 1 ELSE current_idx - 1

RECURSIVE bm_ProofLoop(_, _, _, _, _, _)
bm_ProofLoop(tree, depth, level, current_idx, siblings, indices) ==
    IF level >= depth
    THEN [siblings |-> siblings, indices |-> indices]
    ELSE LET sibling_idx == Xor1(current_idx)
             sibling == IF sibling_idx < Len(tree[level + 1])
                        THEN tree[level + 1][sibling_idx + 1]
                        ELSE 0
         IN  bm_ProofLoop(tree, depth, level + 1, current_idx \div 2,
                          Append(siblings, sibling),
                          Append(indices, current_idx % 2))

\* the value build_merkle_tree(leaves) returns, with its locals tree and
\* depth; no statement of the function raises, whatever the length of leaves
build_merkle_tree(leaves) ==
    LET n == Len(leaves)
        sd == SizeLoop(1, 0, n)
        padded_leaves == leaves \o [k \in 1..(sd.size - n) |-> 0]
        tree == bm_BuildLevels(<<padded_leaves>>, padded_leaves)
        proofs == [k \in 1..n |->
                     bm_ProofLoop(tree, sd.depth, 0, k - 1, <<>>, <<>>)]
    IN  [status |-> "ok", leaves |-> leaves, depth |-> sd.depth,
         tree |-> tree, root |-> tree[Len(tree)][1],
         siblings_list |-> [k \in 1..n |-> proofs[k].siblings],
         indices_list |-> [k \in 1..n |-> proofs[k].indices]]

NoBm ==
    [status |-> "none", leaves |-> <<>>, depth |-> 0, tree |-> <<>>,
     root |-> 0, siblings_list |-> <<>>, indices_list |-> <<>>]

(***************************************************************************)
(* generate_training_test_data.py : to_fixed / from_fixed                  *)
(*                                                                         *)
(* A real number is represented exactly, as a whole number of quanta of    *)
(* size 1 / (PRECISION * SubUnits): the real x is the integer              *)
(* x * PRECISION * SubUnits.                                               *)
(***************************************************************************)
PRECISION == 1000

\* quanta per fixed-point step: the reals of the model lie on a grid
\* SubUnits times finer than the fixed-point grid
SubUnits == 10
\* the reals of the model are -MaxX..MaxX quanta
MaxX == 150

Quantum == PRECISION * SubUnits

Abs(a) == IF a < 0 THEN 0 - a ELSE a

\* int(r) for a real r: the integer part, truncated toward zero
PyInt(r) == IF r >= 0 THEN r \div Quantum ELSE 0 - ((0 - r) \div Quantum)

DigitChars == <<"0", "1", "2", "3", "4", "5", "6", "7", "8", "9">>

RECURSIVE DigitsOf(_)
DigitsOf(k) ==
    IF k < 10 THEN <<DigitChars[k + 1]>>
              ELSE Append(DigitsOf(k \div 10), DigitChars[(k % 10) + 1])

\* str(i) for an integer i: its decimal digits, "-" first when negative
PyStr(i) == IF i < 0 THEN <<"-">> \o DigitsOf(0 - i) ELSE DigitsOf(i)

DigitValue(c) == (CHOOSE d \in 1..10 : DigitChars[d] = c) - 1

RECURSIVE DigitsValue(_, _)
DigitsValue(s, acc) ==
    IF s = <<>> THEN acc
    ELSE DigitsValue(Tail(s), acc * 10 + DigitValue(s[1]))

\* int(s) for a decimal string s
PyParseInt(s) ==
    IF s[1] = "-" THEN 0 - DigitsValue(Tail(s), 0) ELSE DigitsValue(s, 0)

\* int() that rounds down instead of toward zero
to_fixed_floor(value) == PyStr((value * PRECISION) \div Quantum)

to_fixed(value) == PyStr(PyInt(value * PRECISION))

\* value / PRECISION, as a real
from_fixed(value) == (value * Quantum) \div PRECISION

(***************************************************************************)
(* compute_gradient, compute_l2_norm, clip_gradient                        *)
(*                                                                         *)
(* Vector components are whole numbers, on which the script's float        *)
(* arithmetic is exact.  A quotient is kept as a fraction [num, den] with  *)
(* den > 0.  compute_l2_norm is modelled on the vectors whose sum of       *)
(* squares is a perfect square, where the square root is exact.            *)
(***************************************************************************)
\* vectors have 0..MaxDim components
MaxDim == 3
\* gradient components passed to clip_gradient lie in -MaxComp..MaxComp
MaxComp == 4
\* thresholds passed to clip_gradient lie in -MaxTau..MaxTau
MaxTau == 6

WeightValues == {0 - 1, 0, 1}

Labels == {0, 1}

Vectors(S) == UNION {[1..k -> S] : k \in 0..MaxDim}

\* sum(w * x for w, x in zip(weights, features))
RECURSIVE DotZip(_, _, _)
DotZip(weights, features, k) ==
    IF k > Min(Len(weights), Len(features)) THEN 0
    ELSE weights[k] * features[k] + DotZip(weights, features, k + 1)

\* no statement of compute_gradient raises, whatever the two lengths
compute_gradient(weights, features, label) ==
    LET prediction == DotZip(weights, features, 1)
        error == label - prediction
    IN  [status |-> "ok", weights |-> weights, features |-> features,
         label |-> label,
         gradient |-> [k \in 1..Len(features) |-> (0 - error) * features[k]]]

SumSquares(vector) == SumSeq([k \in 1..Len(vector) |-> vector[k] * vector[k]])

IsSquare(q) == \E r \in 0..q : r * r = q

\* sum(v * v for v in vector) ** 0.5
compute_l2_norm(vector) ==
    LET q == SumSquares(vector) IN CHOOSE r \in 0..q : r * r = q

\* the clipping test turned around
ShouldClipBelow(norm, tau) == norm < tau

ShouldClip(norm, tau) == norm > tau

\* clip_gradient(gradient, tau): "ZeroDivisionError" stands for tau / norm
\* raising when norm is 0
clip_gradient(gradient, tau) ==
    LET norm == compute_l2_norm(gradient)
    IN  IF ShouldClip(norm, tau)
        THEN IF norm = 0
             THEN [status |-> "ZeroDivisionError", gradient |-> gradient,
                   tau |-> tau, result |-> <<>>]
             ELSE [status |-> "ok", gradient |-> gradient, tau |-> tau,
                   result |-> [k \in 1..Len(gradient) |->
                                 [num |-> tau * gradient[k], den |-> norm]]]
        ELSE [status |-> "ok", gradient |-> gradient, tau |-> tau,
              result |-> [k \in 1..Len(gradient) |->
                            [num |-> gradient[k], den |-> 1]]]

(***************************************************************************)
(* The callers' state: which call was made last, with what, and what came  *)
(* back.                                                                   *)
(***************************************************************************)
NoProof ==
    [status |-> "none", index |-> 0, siblings |-> <<>>, path_indices |-> <<>>]

NoVerify ==
    [status |-> "none", leaf_value |-> 0, siblings |-> <<>>,
     path_indices |-> <<>>, root |-> 0, result |-> FALSE]

NoCodec == [x |-> 0, s |-> <<>>, decoded |-> 0]

NoGradient == [status |-> "none", weights |-> <<>>, features |-> <<>>,
               label |-> 0, gradient |-> <<>>]

NoClip == [status |-> "none", gradient |-> <<>>, tau |-> 0, result |-> <<>>]

Init ==
    /\ pc = "start"
    /\ mt = NoTree
    /\ bm = NoBm
    /\ proof = NoProof
    /\ vcall = NoVerify
    /\ codec = NoCodec
    /\ cg = NoGradient
    /\ clip = NoClip

\* tree = MerkleTree(leaves)
Construct ==
    /\ pc = "start"
    /\ \E leaves \in LeafSeqs : mt' = MerkleTree(leaves)
    /\ pc' = "built"
    /\ UNCHANGED <<bm, proof, vcall, codec, cg, clip>>

\* root, siblings_list, indices_list = build_merkle_tree(leaves)
BuildMerkleTree ==
    /\ pc = "start"
    /\ \E leaves \in LeafSeqs : bm' = build_merkle_tree(leaves)
    /\ pc' = "bm_done"
    /\ UNCHANGED <<mt, proof, vcall, codec, cg, clip>>

\* siblings, path_indices = tree.get_proof(index); get_proof assigns no
\* attribute of the tree
GetProof ==
    /\ pc = "built"
    /\ \E index \in Indices :
          proof' = [index |-> index] @@ get_proof(mt, index)
    /\ pc' = "proved"
    /\ UNCHANGED <<mt, bm, vcall, codec, cg, clip>>

\* The proofs a caller may present for the proof get_proof returned: the
\* proof itself, one direction bit flipped, one sibling replaced by another
\* field element, and proofs with an entry appended or dropped.
SetAt(s, k, v) == [s EXCEPT ![k] = v]

DropLast(s) == SubSeq(s, 1, Len(s) - 1)

Presented(siblings, path_indices) ==
    {<<siblings, path_indices>>}
    \cup {<<siblings, SetAt(path_indices, k, 1 - path_indices[k])>> :
             k \in 1..Len(path_indices)}
    \cup {<<SetAt(siblings, k, v), path_indices>> :
             k \in 1..Len(siblings), v \in 0..(PRIME - 1)}
    \cup {<<siblings, Append(path_indices, b)>> : b \in {0, 1}}
    \cup {<<Append(siblings, v), path_indices>> : v \in {0, 1}}
    \cup {<<Append(siblings, v), Append(path_indices, 0)>> : v \in {0, 1}}
    \cup (IF siblings = <<>> THEN {}
          ELSE {<<DropLast(siblings), path_indices>>,
                <<siblings, DropLast(path_indices)>>,
                <<DropLast(siblings), DropLast(path_indices)>>})

\* valid = verify_merkle_proof(leaf_value, siblings, path_indices, tree.root)
Verify ==
    /\ pc = "proved"
    /\ proof.status = "ok"
    /\ \E leaf_value \in LeafValues :
       \E p \in Presented(proof.siblings, proof.path_indices) :
          vcall' = [status |-> "ok", leaf_value |-> leaf_value,
                    siblings |-> p[1], path_indices |-> p[2],
                    root |-> mt.root,
                    result |-> verify_merkle_proof(leaf_value, p[1], p[2],
                                                   mt.root)]
    /\ pc' = "verified"
    /\ UNCHANGED <<mt, bm, proof, codec, cg, clip>>

Next == Construct \/ BuildMerkleTree \/ GetProof \/ Verify

Spec == Init /\ [][Next]_vars

(***************************************************************************)
(* Properties of the Merkle engine, checked under Spec.                    *)
(***************************************************************************)
\* the last get_proof call named an original leaf and returned a proof
ProofOfLeaf ==
    /\ proof.status = "ok"
    /\ proof.index >= 0
    /\ proof.index < mt.n

\* the last verify call was made for the leaf the proof was asked for,
\* against the tree's root
VerifiedForLeaf ==
    /\ vcall.status = "ok"
    /\ ProofOfLeaf
    /\ vcall.leaf_value = mt.leaves[proof.index + 1]
    /\ vcall.root = mt.root

\* the positions where two sequences of equal length differ
Diff(s, t) == {k \in 1..Len(s) : s[k] # t[k]}

\* C1: round-trip proof validity: for every leaf sequence of length n >= 1
\* and every index 0 <= i < n, verifying leaves[i] with the proof
\* get_proof(i) returned against the tree's root returns True.
C1_RoundTrip ==
    (/\ VerifiedForLeaf
     /\ vcall.siblings = proof.siblings
     /\ vcall.path_indices = proof.path_indices)
    => vcall.result = TRUE

\* a round trip through a tree with padding and more than one level
C1_Witness ==
    /\ VerifiedForLeaf
    /\ vcall.siblings = proof.siblings
    /\ vcall.path_indices = proof.path_indices
    /\ mt.n = 3
    /\ mt.depth = 2
    /\ proof.index = 2
    /\ vcall.result = TRUE

\* C2: tamper detection on direction bits: with depth >= 1, flipping a single
\* entry of pathIndices of a valid proof, the leaf value, siblings and root
\* left alone, makes verify_merkle_proof return False.
C2_FlippedBitRejected ==
    (/\ VerifiedForLeaf
     /\ mt.depth >= 1
     /\ vcall.siblings = proof.siblings
     /\ Len(vcall.path_indices) = Len(proof.path_indices)
     /\ Cardinality(Diff(vcall.path_indices, proof.path_indices)) = 1)
    => vcall.result = FALSE

\* C3: tamper detection on siblings: with depth >= 1, replacing a single
\* entry of siblings of a valid proof by a different field element, the leaf
\* value, pathIndices and root left alone, makes verify_merkle_proof return
\* False.
C3_ReplacedSiblingRejected ==
    (/\ VerifiedForLeaf
     /\ mt.depth >= 1
     /\ vcall.path_indices = proof.path_indices
     /\ Len(vcall.siblings) = Len(proof.siblings)
     /\ Cardinality(Diff(vcall.siblings, proof.siblings)) = 1)
    => vcall.result = FALSE

\* a sibling of the lowest level of a two-level proof was replaced, and the
\* proof was rejected
C3_Witness ==
    /\ VerifiedForLeaf
    /\ mt.depth = 2
    /\ vcall.path_indices = proof.path_indices
    /\ Len(vcall.siblings) = Len(proof.siblings)
    /\ Diff(vcall.siblings, proof.siblings) = {1}
    /\ vcall.result = FALSE

\* C4: verify_merkle_proof always returns a boolean, and a proof whose
\* siblings and pathIndices differ in length, or whose number of steps
\* differs from the depth of the tree that produced the root, is rejected.
C4_MalformedRejected ==
    (vcall.status = "ok" /\ ProofOfLeaf) =>
        /\ vcall.result \in BOOLEAN
        /\ (\/ Len(vcall.siblings) # Len(vcall.path_indices)
            \/ Len(vcall.siblings) # mt.depth) => vcall.result = FALSE

\* C5: building a Merkle tree from zero leaves fails with an empty-input
\* error: MerkleTree([]) and build_merkle_tree([]) raise instead of
\* returning a root.
C5_EmptyInputFails ==
    /\ (pc = "built" /\ mt.leaves = <<>>) => mt.status = "EmptyInputError"
    /\ (pc = "bm_done" /\ bm.leaves = <<>>) => bm.status = "EmptyInputError"

\* C6: get_proof(index) returns a proof only when 0 <= index < n; for every
\* other index, padding positions and negative indices included, it fails
\* with an out-of-range error and returns no partial proof.
C6_ProofOnlyForLeaves ==
    (proof.status # "none" /\ mt.n >= 1) =>
        IF proof.index >= 0 /\ proof.index < mt.n
        THEN proof.status = "ok"
        ELSE /\ proof.status \in {"ValueError", "IndexError"}
             /\ proof.siblings = <<>>
             /\ proof.path_indices = <<>>

(***************************************************************************)
(* The fixed-point codec: encode a real, decode the string it gave.        *)
(***************************************************************************)
\* s = to_fixed(x)
ToFixed ==
    /\ pc = "start"
    /\ \E x \in (0 - MaxX)..MaxX :
          codec' = [x |-> x, s |-> to_fixed(x), decoded |-> 0]
    /\ pc' = "encoded"
    /\ UNCHANGED <<mt, bm, proof, vcall, cg, clip>>

\* from_fixed(int(s))
FromFixed ==
    /\ pc = "encoded"
    /\ codec' = [codec EXCEPT !.decoded = from_fixed(PyParseInt(codec.s))]
    /\ pc' = "decoded"
    /\ UNCHANGED <<mt, bm, proof, vcall, cg, clip>>

CodecNext == ToFixed \/ FromFixed

CodecSpec == Init /\ [][CodecNext]_vars

(***************************************************************************)
(* The gradient pipeline.                                                  *)
(***************************************************************************)
\* grad = compute_gradient(weights, features, label)
ComputeGradient ==
    /\ pc = "start"
    /\ \E weights \in Vectors(WeightValues), features \in Vectors(WeightValues),
          label \in Labels :
          cg' = compute_gradient(weights, features, label)
    /\ pc' = "gradient"
    /\ UNCHANGED <<mt, bm, proof, vcall, codec, clip>>

\* clipped = clip_gradient(gradient, tau)
ClipGradient ==
    /\ pc = "start"
    /\ \E gradient \in Vectors((0 - MaxComp)..MaxComp),
          tau \in (0 - MaxTau)..MaxTau :
          /\ IsSquare(SumSquares(gradient))
          /\ clip' = clip_gradient(gradient, tau)
    /\ pc' = "clipped"
    /\ UNCHANGED <<mt, bm, proof, vcall, codec, cg>>

GradNext == ComputeGradient \/ ClipGradient

GradSpec == Init /\ [][GradNext]_vars

(***************************************************************************)
(* Properties of the codec, checked under CodecSpec.                       *)
(***************************************************************************)
\* round(r) for a real r, halves away from zero
RoundHalfAway(r) ==
    IF r >= 0 THEN (2 * r + Quantum) \div (2 * Quantum)
              ELSE 0 - ((2 * (0 - r) + Quantum) \div (2 * Quantum))

\* C7: fixed-point bound: for every real x, decoding the encoding of x with
\* SCALE = PRECISION = 1000 differs from x by at most 0.5 / SCALE, because
\* encode(x) equals round(x * SCALE).
C7_HalfStepBound ==
    pc = "decoded" =>
        /\ PyParseInt(codec.s) = RoundHalfAway(codec.x * PRECISION)
        /\ 2 * PRECISION * Abs(codec.decoded - codec.x) <= Quantum

(***************************************************************************)
(* Properties of the gradient pipeline, checked under GradSpec.            *)
(***************************************************************************)
Sign(a) == IF a > 0 THEN 1 ELSE IF a < 0 THEN 0 - 1 ELSE 0

\* the vector clip_gradient returned equals, component by component, the
\* vector it was given
ReturnedUnchanged ==
    /\ Len(clip.result) = Len(clip.gradient)
    /\ \A k \in 1..Len(clip.gradient) :
          clip.result[k].num = clip.gradient[k] * clip.result[k].den

\* every component of the result is the input component times tau / g,
\* where g * g = SumSquares(gradient), and tau / g is positive
ScaledByTauOverNorm ==
    /\ Len(clip.result) = Len(clip.gradient)
    /\ clip.tau > 0
    /\ \A k \in 1..Len(clip.gradient) :
          LET r == clip.result[k]
              g == clip.gradient[k]
          IN  /\ r.den > 0
              /\ Sign(r.num) = Sign(g)
              /\ r.num * r.num * SumSquares(clip.gradient)
                    = clip.tau * clip.tau * g * g * r.den * r.den

\* the squared norm of the result is tau * tau
ResultNormIsTau ==
    \E d \in 1..(MaxComp * MaxComp * (MaxDim + 1)) :
        /\ \A k \in 1..Len(clip.result) : clip.result[k].den = d
        /\ SumSeq([k \in 1..Len(clip.result) |->
                     clip.result[k].num * clip.result[k].num])
              = clip.tau * clip.tau * d * d

\* C8: clipping correctness: for every gradient vector with L2 norm g and
\* every threshold tau > 0, clip_gradient returns the vector unchanged if
\* and only if g <= tau; otherwise every component of the result is the input
\* component times the same positive factor tau / g, so the result has norm
\* tau and the same direction.
C8_ClippingCorrect ==
    (pc = "clipped" /\ clip.tau > 0) =>
        /\ clip.status = "ok"
        /\ ReturnedUnchanged
              <=> SumSquares(clip.gradient) <= clip.tau * clip.tau
        /\ SumSquares(clip.gradient) > clip.tau * clip.tau
              => ScaledByTauOverNorm /\ ResultNormIsTau

\* a vector of norm 5 with two non-zero components, one of them negative,
\* was clipped to the threshold 2
C8_Witness ==
    /\ pc = "clipped"
    /\ clip.gradient = <<0 - 3, 4>>
    /\ clip.tau = 2
    /\ clip.result = <<[num |-> 0 - 6, den |-> 5], [num |-> 8, den |-> 5]>>

\* C9: clip_gradient called with tau <= 0 fails for every input vector and
\* returns no vector.
C9_NonPositiveTauFails ==
    (pc = "clipped" /\ clip.tau <= 0) =>
        /\ clip.status # "ok"
        /\ clip.result = <<>>

\* C10: compute_gradient fails with a dimension-mismatch error whenever
\* len(weights) # len(features); when the lengths are equal it returns
\* result[i] = -(label - dot(weights, features)) * features[i].
C10_GradientOrMismatch ==
    pc = "gradient" =>
        IF Len(cg.weights) # Len(cg.features)
        THEN cg.status # "ok"
        ELSE /\ cg.status = "ok"
             /\ Len(cg.gradient) = Len(cg.features)
             /\ \A i \in 1..Len(cg.features) :
                   cg.gradient[i] =
                      (0 - (cg.label - SumSeq([k \in 1..Len(cg.weights) |->
                                 cg.weights[k] * cg.features[k]])))
                      * cg.features[i]

(***************************************************************************)
(* Shape of the trees, checked under Spec.                                 *)
(***************************************************************************)
RECURSIVE TwoToThe(_)
TwoToThe(d) == IF d = 0 THEN 1 ELSE 2 * TwoToThe(d - 1)

\* d = ceil(log2(n)) for n >= 1: the least d with 2^d >= n
IsCeilLog2(d, n) ==
    /\ d >= 0
    /\ TwoToThe(d) >= n
    /\ d > 0 => TwoToThe(d - 1) < n

\* levels is a tree of the given depth over n original leaves, ending in root
WellShaped(levels, depth, n, root) ==
    /\ IsCeilLog2(depth, n)
    /\ Len(levels) = depth + 1
    /\ Len(levels[1]) = TwoToThe(depth)
    /\ \A i \in 1..(Len(levels) - 1) :
          Len(levels[i + 1]) = (Len(levels[i]) + 1) \div 2
    /\ Len(levels[Len(levels)]) = 1
    /\ levels[Len(levels)][1] = root

\* C11: padding and shape invariant: for every n >= 1, the tree built by
\* MerkleTree (and by build_merkle_tree) has depth = ceil(log2(n)) (0 when
\* n = 1), level 0 has exactly 2^depth entries, each following level has
\* ceil(len(previous) / 2) entries, there are depth + 1 levels, and the single
\* entry of the last level is the root.
C11_PaddingAndShape ==
    /\ (pc = "built" /\ mt.n >= 1) =>
          /\ WellShaped(mt.tree, mt.depth, mt.n, mt.root)
          /\ mt.n = 1 => mt.depth = 0
    /\ (pc = "bm_done" /\ Len(bm.leaves) >= 1) =>
          /\ WellShaped(bm.tree, bm.depth, Len(bm.leaves), bm.root)
          /\ Len(bm.leaves) = 1 => bm.depth = 0

\* a tree over three leaves was built: one padding entry, depth 2, levels of
\* 4, 2 and 1 entries
C11_Witness ==
    /\ pc = "built"
    /\ mt.n = 3
    /\ mt.depth = 2
    /\ Len(mt.tree) = 3
    /\ Len(mt.tree[1]) = 4
    /\ Len(mt.tree[2]) = 2
    /\ mt.tree[3] = <<mt.root>>

====
